---- MODULE Spec2Model ----
(***************************************************************************)
(* Registration / booking lifecycle and notification pipeline of the site  *)
(* coordination web application (coordination_app.py, notifications.py,    *)
(* config.py).  One action per POST handler; a handler runs to completion   *)
(* or raises within one request.  The store is three tables kept as         *)
(* sequences of rows in insertion order.  Columns no modelled handler       *)
(* reads or writes (created_at, the names of a booking) are left out.       *)
(***************************************************************************)
EXTENDS Naturals, Sequences, FiniteSets

VARIABLES
    registrations,      \* table registrations (committed rows)
    users,              \* table users (committed rows)
    bookings,           \* table bookings (committed rows)
    config,             \* SITE_COORDINATION_SMTP_* environment
    users_email_unique, \* whether the users table carries UNIQUE(email)
    req,                \* the request handled last
    prev,               \* the committed tables before that request
    flashes,            \* flash() calls of that request, in order
    sends,              \* send_email() calls of that request, in order
    exc,                \* exception that left the handler, or "none"
    approvers,          \* approve requests in progress side by side
    write_lock,         \* the connection holding the store's write lock
    session,            \* the check-in browser's session cookie
    activity_research   \* table activity_research (committed rows)

vars == <<registrations, users, bookings, config, users_email_unique,
          req, prev, flashes, sends, exc, approvers, write_lock, session,
          activity_research>>

----------------------------------------------------------------------------
(* Bounds of the model *)

MaxUsers == 2
MaxBookings == 1
MaxReviewBookings == 2  \* bookings on the review pages taken together
MaxActivities == 2      \* rows of activity_research

Emails == {"ann@site.org", "bob@site.org"}
Passwords == {"pw-1", "pw-2"}
\* SITE_COORDINATION_SMTP_HOST / _USER: no relay, a relay with and without login
SmtpConfigs ==
    { [host |-> "", user |-> ""],
      [host |-> "relay.site.org", user |-> ""],
      [host |-> "relay.site.org", user |-> "mailer"] }
RelayBehaviours == {"ok", "unreachable", "starttls_fails", "auth_rejected",
                    "send_rejected"}

\* The request fields a registration email of each address parses into.
ProfileOf(email) ==
    IF email = "ann@site.org"
    THEN [first_name |-> "Ann", last_name |-> "Arno", affiliation |-> "RWTH",
          project |-> "P-crane", phone |-> "0241-1"]
    ELSE [first_name |-> "Bob", last_name |-> "Bern", affiliation |-> "CCR",
          project |-> "", phone |-> "0241-2"]

BookingRequests ==
    { [email |-> "ann@site.org", project |-> "P-crane",
       timeslot_raw |-> "2025-W10; Mon-Fri", duration_weeks |-> "2"] }

DigitStrings == <<"1", "2", "3", "4", "5">>

----------------------------------------------------------------------------
(* Helpers over tables *)

Rows(table, email) == {i \in DOMAIN table : table[i].email = email}

Min(S) == CHOOSE i \in S : \A j \in S : i <= j

\* cursor.fetchone() of SELECT ... WHERE email = ?
HasRow(table, email) == Rows(table, email) # {}
FetchOne(table, email) == table[Min(Rows(table, email))]

Flash(category, message) == [category |-> category, message |-> message]

Tables(r, u, b) == [registrations |-> r, users |-> u, bookings |-> b]

Result(db, fl, sd, ex) == [db |-> db, flashes |-> fl, sends |-> sd, exc |-> ex]

----------------------------------------------------------------------------
(* Record Store Gateway: db.py and db_tools.py.  get_connection is a scoped
   acquisition: statements act on a working copy that is committed when the
   scope is left normally (or by connection.commit()) and rolled back when
   an exception leaves it. *)

get_connection_exit(committed, working, raised) ==
    IF raised = "none" THEN working ELSE committed

\* db.insert_user: one INSERT into users of the keyword arguments `row`;
\* credentials_sent defaults to 0.  With UNIQUE(email) a second row of the
\* same email raises IntegrityError.
insert_user(table, unique, row) ==
    IF unique /\ HasRow(table, row.email)
    THEN [raised |-> "IntegrityError", users |-> table]
    ELSE [raised |-> "none",
          users |-> Append(table,
              [email |-> row.email, password |-> row.password,
               first_name |-> row.first_name, last_name |-> row.last_name,
               affiliation |-> row.affiliation, project |-> row.project,
               phone |-> row.phone, credentials_sent |-> 0])]

\* db.update_registration_status: UPDATE registrations SET status = ? WHERE email = ?
update_registration_status(table, email, status) ==
    [i \in DOMAIN table |->
        IF table[i].email = email THEN [table[i] EXCEPT !.status = status]
        ELSE table[i]]

\* processor.handle_access_request: store the parsed request as a pending
\* Registration; email is the key, an existing Registration is not touched.
handle_access_request(table, parsed) ==
    IF HasRow(table, parsed.email) THEN table
    ELSE Append(table,
            [email |-> parsed.email,
             first_name |-> parsed.profile.first_name,
             last_name |-> parsed.profile.last_name,
             affiliation |-> parsed.profile.affiliation,
             project |-> parsed.profile.project,
             phone |-> parsed.profile.phone,
             status |-> "pending"])

\* processor.handle_booking_request: store the parsed request as a pending
\* Booking under the next surrogate id.
handle_booking_request(table, parsed) ==
    Append(table,
        [id |-> Len(table) + 1, email |-> parsed.email,
         project |-> parsed.project, timeslot_raw |-> parsed.timeslot_raw,
         duration_weeks |-> parsed.duration_weeks, status |-> "pending"])

\* UPDATE bookings SET status = ? WHERE id = ?
UpdateBookingStatus(table, booking_id, status) ==
    [i \in DOMAIN table |->
        IF table[i].id = booking_id THEN [table[i] EXCEPT !.status = status]
        ELSE table[i]]

BookingRows(table, booking_id) == {i \in DOMAIN table : table[i].id = booking_id}

\* UPDATE users SET credentials_sent = credentials_sent + 1 WHERE email = ?
IncrementCredentialsSent(table, email) ==
    [i \in DOMAIN table |->
        IF table[i].email = email
        THEN [table[i] EXCEPT !.credentials_sent = @ + 1]
        ELSE table[i]]

----------------------------------------------------------------------------
(* Email Composer and Mail Transport: notifications.py *)

\* A call binds its positional arguments to (recipient, password, first_name,
\* last_name), none of which has a default: any other count is a TypeError.
build_credentials_email(args) ==
    IF Len(args) # 4
    THEN [raised |-> "TypeError", message |-> [subject |-> ""]]
    ELSE LET parts == SelectSeq(<<args[3], args[4]>>, LAMBDA part : part # "")
         IN [raised |-> "none",
             message |->
               [subject |-> "Your registration for the Reference Construction Site has been approved",
                to |-> args[1],
                greeting |-> IF parts = <<>> THEN <<"there">> ELSE parts,
                email |-> args[1],
                password |-> args[2],
                from |-> ""]]

\* _booking_value taking the fallback for every key.
_booking_value_fallback(booking, key) == ""

\* sqlite3.Row has no get(): the value is read by key when the key is a column.
_booking_value(booking, key) ==
    IF key \in DOMAIN booking THEN booking[key] ELSE ""

build_booking_confirmation_email(recipient, booking) ==
    [subject |-> "Your Booking Confirmation",
     to |-> recipient,
     project |-> _booking_value(booking, "project"),
     timeslot |-> _booking_value(booking, "timeslot_raw"),
     duration |-> _booking_value(booking, "duration_weeks"),
     from |-> ""]

SenderEmail == "wordpress@campus-rwth-aachen.com"

\* send_email without the `with` block: server.quit() after send_message
\* only, so a failing step leaves the connection open.
send_email_quit_at_end(cfg, message, relay) ==
    LET msg == [message EXCEPT !.from = SenderEmail]
        login == IF cfg.user # "" THEN <<"login">> ELSE <<>>
        Attempt(steps, raised) ==
            [message |-> msg, steps |-> steps, raised |-> raised]
    IN  IF relay = "unreachable"
        THEN Attempt(<<"connect">>, "OSError")
        ELSE IF relay = "starttls_fails"
        THEN Attempt(<<"connect", "starttls">>, "SMTPException")
        ELSE IF relay = "auth_rejected" /\ cfg.user # ""
        THEN Attempt(<<"connect", "starttls", "login">>,
                     "SMTPAuthenticationError")
        ELSE IF relay = "send_rejected"
        THEN Attempt(<<"connect", "starttls">> \o login
                        \o <<"send_message">>, "SMTPException")
        ELSE Attempt(<<"connect", "starttls">> \o login
                        \o <<"send_message", "close">>, "none")

\* One SMTP exchange against a relay behaving as `relay`: the steps taken on
\* the connection, and the exception that leaves send_email, if any.
send_email(cfg, message, relay) ==
    LET msg == [message EXCEPT !.from = SenderEmail]
        login == IF cfg.user # "" THEN <<"login">> ELSE <<>>
        Attempt(steps, raised) ==
            [message |-> msg, steps |-> steps, raised |-> raised]
    IN  IF relay = "unreachable"
        THEN Attempt(<<"connect">>, "OSError")
        ELSE IF relay = "starttls_fails"
        THEN Attempt(<<"connect", "starttls", "close">>, "SMTPException")
        ELSE IF relay = "auth_rejected" /\ cfg.user # ""
        THEN Attempt(<<"connect", "starttls", "login", "close">>,
                     "SMTPAuthenticationError")
        ELSE IF relay = "send_rejected"
        THEN Attempt(<<"connect", "starttls">> \o login
                        \o <<"send_message", "close">>, "SMTPException")
        ELSE Attempt(<<"connect", "starttls">> \o login
                        \o <<"send_message", "close">>, "none")

----------------------------------------------------------------------------
(* Lifecycle Coordinator: coordination_app.py.  Each operator is one helper
   of the handlers, from the committed tables `db` to a Result: the tables
   committed afterwards, the flashes, the send attempts and the exception
   that leaves it.  `fault` names the store statement that fails with an
   OperationalError ("none": the store works). *)

StoreFaults == {"insert_user", "update_status"}

_user_exists(db, email) == email # "" /\ HasRow(db.users, email)

\* _approve_registration without its last statement, the status update.
_approve_registration_no_status_update(db, email, password, fault) ==
    IF ~HasRow(db.registrations, email)
    THEN Result(db, <<Flash("error", "Registration not found.")>>, <<>>, "none")
    ELSE
    LET row == FetchOne(db.registrations, email)
        ins == insert_user(db.users, users_email_unique,
                        [email |-> row.email, password |-> password,
                         first_name |-> row.first_name,
                         last_name |-> row.last_name,
                         affiliation |-> row.affiliation,
                         project |-> row.project, phone |-> row.phone])
    IN  IF ins.raised # "none"
        THEN Result(db, <<>>, <<>>, ins.raised)
        ELSE Result([db EXCEPT !.users = ins.users],
                    <<Flash("success", "Registration approved and user created for {email}.")>>,
                    <<>>, "none")

\* _approve_registration with a connection.commit() after the insert, as
\* _approve_booking has after its update: the insert outlives a later failure.
_approve_registration_commit_after_insert(db, email, password, fault) ==
    IF ~HasRow(db.registrations, email)
    THEN Result(db, <<Flash("error", "Registration not found.")>>, <<>>, "none")
    ELSE
    LET row == FetchOne(db.registrations, email)
        ins == IF fault = "insert_user"
               THEN [raised |-> "OperationalError", users |-> db.users]
               ELSE insert_user(db.users, users_email_unique,
                        [email |-> row.email, password |-> password,
                         first_name |-> row.first_name,
                         last_name |-> row.last_name,
                         affiliation |-> row.affiliation,
                         project |-> row.project, phone |-> row.phone])
        inserted == [db EXCEPT !.users = ins.users]
        updated == [inserted EXCEPT !.registrations =
                        update_registration_status(@, email, "registriert")]
    IN  IF ins.raised # "none"
        THEN Result(db, <<>>, <<>>, ins.raised)
        ELSE IF fault = "update_status"
        THEN Result(get_connection_exit(inserted, inserted, "OperationalError"),
                    <<>>, <<>>, "OperationalError")
        ELSE Result(updated,
                    <<Flash("success", "Registration approved and user created for {email}.")>>,
                    <<>>, "none")

_approve_registration(db, email, password, fault) ==
    IF ~HasRow(db.registrations, email)
    THEN Result(get_connection_exit(db, db, "none"),
                <<Flash("error", "Registration not found.")>>, <<>>, "none")
    ELSE
    LET row == FetchOne(db.registrations, email)
        ins == IF fault = "insert_user"
               THEN [raised |-> "OperationalError", users |-> db.users]
               ELSE insert_user(db.users, users_email_unique,
                        [email |-> row.email, password |-> password,
                         first_name |-> row.first_name,
                         last_name |-> row.last_name,
                         affiliation |-> row.affiliation,
                         project |-> row.project, phone |-> row.phone])
        inserted == [db EXCEPT !.users = ins.users]
        updated == [inserted EXCEPT !.registrations =
                        update_registration_status(@, email, "registriert")]
    IN  IF ins.raised # "none"
        THEN Result(get_connection_exit(db, db, ins.raised), <<>>, <<>>, ins.raised)
        ELSE IF fault = "update_status"
        THEN Result(get_connection_exit(db, inserted, "OperationalError"),
                    <<>>, <<>>, "OperationalError")
        ELSE Result(get_connection_exit(db, updated, "none"),
                    <<Flash("success", "Registration approved and user created for {email}.")>>,
                    <<>>, "none")

_deny_registration(db, email) ==
    LET updated == [db EXCEPT !.registrations =
                        update_registration_status(@, email, "denied")]
    IN  Result(get_connection_exit(db, updated, "none"),
               <<Flash("success", "Registration denied for {email}.")>>,
               <<>>, "none")

\* _send_booking_email without the check of config.host.
_send_booking_email_unchecked(cfg, email, row, relay) ==
    LET attempt == send_email(cfg, build_booking_confirmation_email(email, row), relay)
    IN  Result(<<>>, <<>>, <<attempt>>, attempt.raised)

_send_booking_email(cfg, email, row, relay) ==
    IF cfg.host = ""
    THEN Result(<<>>,
                <<Flash("error", "SMTP host not configured; booking email not sent.")>>,
                <<>>, "none")
    ELSE LET attempt == send_email(cfg, build_booking_confirmation_email(email, row), relay)
         IN  Result(<<>>, <<>>, <<attempt>>, attempt.raised)

\* _approve_booking with the email sent inside the connection scope, before
\* the commit: a transport failure leaves the scope and rolls the update back.
_approve_booking_send_before_commit(db, cfg, booking_id, relay) ==
    IF BookingRows(db.bookings, booking_id) = {}
    THEN Result(db, <<Flash("error", "Booking not found.")>>, <<>>, "none")
    ELSE
    LET row == db.bookings[Min(BookingRows(db.bookings, booking_id))]
        working == [db EXCEPT !.bookings =
                        UpdateBookingStatus(@, booking_id, "gebucht")]
        mail == _send_booking_email(cfg, row.email, row, relay)
    IN  IF mail.exc # "none"
        THEN Result(get_connection_exit(db, working, mail.exc),
                    mail.flashes, mail.sends, mail.exc)
        ELSE Result(working,
                    mail.flashes \o <<Flash("success", "Booking approved for {email}.")>>,
                    mail.sends, "none")

_approve_booking(db, cfg, booking_id, relay) ==
    IF BookingRows(db.bookings, booking_id) = {}
    THEN Result(get_connection_exit(db, db, "none"),
                <<Flash("error", "Booking not found.")>>, <<>>, "none")
    ELSE
    LET row == db.bookings[Min(BookingRows(db.bookings, booking_id))]
        committed == [db EXCEPT !.bookings =
                        UpdateBookingStatus(@, booking_id, "gebucht")]
        mail == _send_booking_email(cfg, row.email, row, relay)
    IN  IF mail.exc # "none"
        THEN Result(committed, mail.flashes, mail.sends, mail.exc)
        ELSE Result(committed,
                    mail.flashes \o <<Flash("success", "Booking approved for {email}.")>>,
                    mail.sends, "none")

\* _deny_booking with an UPDATE that has lost its WHERE clause.
_deny_booking_every_row(db, booking_id) ==
    Result([db EXCEPT !.bookings =
                [i \in DOMAIN @ |-> [@[i] EXCEPT !.status = "denied"]]],
           <<Flash("success", "Booking denied.")>>, <<>>, "none")

_deny_booking(db, booking_id) ==
    Result([db EXCEPT !.bookings = UpdateBookingStatus(@, booking_id, "denied")],
           <<Flash("success", "Booking denied.")>>, <<>>, "none")

\* Returns the bool of the source as `sent`.
_send_credentials_email(cfg, email, password, relay) ==
    IF cfg.host = ""
    THEN [sent |-> FALSE,
          flashes |-> <<Flash("error", "SMTP host not configured; credentials email not sent.")>>,
          sends |-> <<>>, exc |-> "none"]
    ELSE LET built == build_credentials_email(<<email, password>>)
             attempt == send_email(cfg, built.message, relay)
         IN  IF built.raised # "none"
             THEN [sent |-> FALSE, flashes |-> <<>>, sends |-> <<>>,
                   exc |-> built.raised]
             ELSE [sent |-> attempt.raised = "none", flashes |-> <<>>,
                   sends |-> <<attempt>>, exc |-> attempt.raised]

\* _send_user_credentials ignoring the bool of _send_credentials_email: the
\* counter is raised for every attempt that ends without an exception.
_send_user_credentials_counts_attempts(db, cfg, email, relay) ==
    IF ~HasRow(db.users, email)
    THEN Result(db, <<Flash("error", "User not found.")>>, <<>>, "none")
    ELSE
    LET password == FetchOne(db.users, email).password
        mail == _send_credentials_email(cfg, email, password, relay)
    IN  IF mail.exc # "none"
        THEN Result(db, mail.flashes, mail.sends, mail.exc)
        ELSE Result([db EXCEPT !.users = IncrementCredentialsSent(@, email)],
                    mail.flashes \o <<Flash("success", "Credentials sent to {email}.")>>,
                    mail.sends, "none")

_send_user_credentials(db, cfg, email, relay) ==
    IF ~HasRow(db.users, email)
    THEN Result(db, <<Flash("error", "User not found.")>>, <<>>, "none")
    ELSE
    LET password == FetchOne(db.users, email).password
        mail == _send_credentials_email(cfg, email, password, relay)
    IN  IF mail.exc # "none"
        THEN Result(db, mail.flashes, mail.sends, mail.exc)
        ELSE IF mail.sent
        THEN Result([db EXCEPT !.users = IncrementCredentialsSent(@, email)],
                    mail.flashes \o <<Flash("success", "Credentials sent to {email}.")>>,
                    mail.sends, "none")
        ELSE Result(db, mail.flashes, mail.sends, "none")

_build_credentials_preview(db, email) ==
    IF ~HasRow(db.users, email)
    THEN Result(db, <<Flash("error", "User not found for credentials preview.")>>,
                <<>>, "none")
    ELSE LET row == FetchOne(db.users, email)
         IN  Result(db, <<>>, <<>>,
                    build_credentials_email(<<row.email, row.password>>).raised)

----------------------------------------------------------------------------
(* Form inputs *)

\* The forms posted to the manage pages: a button of a row (listed or not),
\* a form without its key, a form without an action.
Forms(keys, actions) ==
    {[key |-> k, action |-> a] : k \in keys, a \in actions}
        \cup {[key |-> "", action |-> a] : a \in actions}
        \cup {[key |-> CHOOSE k \in keys : TRUE, action |-> ""]}

RegistrationForms == Forms(Emails, {"approve", "deny"})
UserForms == Forms(Emails, {"send"})
BookingForms ==
    Forms({DigitStrings[n] : n \in 1..(MaxBookings + 1)}, {"approve", "deny"})
        \cup {[key |-> "x", action |-> "approve"]}

\* raw_email of the manual pages: text the Request Parser rejects, or text it
\* parses into the fields of a request.
RawRegistrationEmails ==
    {[ok |-> FALSE, email |-> "",
      profile |-> [first_name |-> "", last_name |-> "", affiliation |-> "",
                   project |-> "", phone |-> ""]]}
        \cup {[ok |-> TRUE, email |-> e, profile |-> ProfileOf(e)] : e \in Emails}

RawBookingEmails ==
    {[ok |-> FALSE,
      parsed |-> [email |-> "", project |-> "", timeslot_raw |-> "",
                  duration_weeks |-> ""]]}
        \cup {[ok |-> TRUE, parsed |-> b] : b \in BookingRequests}

\* show_email of GET /users/manage?show_email=..., and what .strip().lower()
\* makes of it; the forms are posted without a query string.
ShowEmailForms == {" Ann@Site.org ", "bob@site.org"}
StripLower(text) ==
    IF text = " Ann@Site.org " THEN "ann@site.org" ELSE text

\* int(booking_id): the decimal strings convert, anything else is a ValueError
int(text) ==
    IF \E n \in DOMAIN DigitStrings : DigitStrings[n] = text
    THEN [raised |-> "none",
          value |-> CHOOSE n \in DOMAIN DigitStrings : DigitStrings[n] = text]
    ELSE [raised |-> "ValueError", value |-> 0]

\* The relay's behaviour matters only to a request that can reach send_email.
RelaysFor(action) ==
    IF action \in {"approve", "send"} /\ config.host # ""
    THEN RelayBehaviours ELSE {"ok"}

----------------------------------------------------------------------------
(* POST handlers *)

registration_manual(db, raw) ==
    IF ~raw.ok
    THEN Result(db, <<Flash("error", "Could not parse registration email: {exc}")>>,
                <<>>, "none")
    ELSE IF _user_exists(db, raw.email)
    THEN Result(db,
                <<Flash("error", "A user with this email already exists. Registration not stored.")>>,
                <<>>, "none")
    ELSE Result([db EXCEPT !.registrations = handle_access_request(@, raw)],
                <<Flash("success", "{result.message}")>>, <<>>, "none")

registrations_manage(db, email, action, password, fault) ==
    IF email # "" /\ action = "approve"
    THEN _approve_registration(db, email, password, fault)
    ELSE IF email # "" /\ action = "deny"
    THEN _deny_registration(db, email)
    ELSE Result(db, <<>>, <<>>, "none")

users_manage(db, cfg, method, show_email, email, action, relay) ==
    LET selected_email == StripLower(show_email)
        preview == IF selected_email # ""
                   THEN _build_credentials_preview(db, selected_email)
                   ELSE Result(db, <<>>, <<>>, "none")
        sent == _send_user_credentials(db, cfg, email, relay)
    IN  IF preview.exc # "none"
        THEN preview
        ELSE IF method = "POST" /\ email # "" /\ action = "send"
        THEN Result(sent.db, preview.flashes \o sent.flashes, sent.sends, sent.exc)
        ELSE preview

booking_manual(db, raw) ==
    IF ~raw.ok
    THEN Result(db, <<Flash("error", "Could not parse booking email: {exc}")>>,
                <<>>, "none")
    ELSE Result([db EXCEPT !.bookings = handle_booking_request(@, raw.parsed)],
                <<Flash("success", "{result.message}")>>, <<>>, "none")

bookings_manage(db, cfg, booking_id, action, relay) ==
    IF booking_id # "" /\ action \in {"approve", "deny"}
    THEN IF int(booking_id).raised # "none"
         THEN Result(db, <<>>, <<>>, int(booking_id).raised)
         ELSE IF action = "approve"
         THEN _approve_booking(db, cfg, int(booking_id).value, relay)
         ELSE _deny_booking(db, int(booking_id).value)
    ELSE Result(db, <<>>, <<>>, "none")

----------------------------------------------------------------------------
(* The state machine *)

Db == Tables(registrations, users, bookings)

NoRequest ==
    [op |-> "none", method |-> "POST", email |-> "", booking_id |-> "", action |-> "",
     password |-> "", relay |-> "", show_email |-> "", fault |-> "none",
     raw_ok |-> FALSE, presence |-> "", project |-> ""]

\* One request: the handler's Result becomes the committed tables and the
\* response, and the request and the tables before it are remembered.
Respond(request, result) ==
    /\ registrations' = result.db.registrations
    /\ users' = result.db.users
    /\ bookings' = result.db.bookings
    /\ flashes' = result.flashes
    /\ sends' = result.sends
    /\ exc' = result.exc
    /\ req' = request
    /\ prev' = Db
    /\ UNCHANGED <<config, users_email_unique, approvers, write_lock,
                   session, activity_research>>

\* Two requests may be in flight at once (threaded server).
Workers == {"w1", "w2"}

IdleApprover ==
    [pc |-> "idle", email |-> "", password |-> "",
     row |-> [email |-> "", first_name |-> "", last_name |-> "",
              affiliation |-> "", project |-> "", phone |-> "", status |-> ""]]

Init ==
    /\ registrations = <<>>
    /\ users = <<>>
    /\ bookings = <<>>
    /\ config \in SmtpConfigs
    /\ users_email_unique \in BOOLEAN
    /\ req = NoRequest
    /\ prev = Tables(<<>>, <<>>, <<>>)
    /\ flashes = <<>>
    /\ sends = <<>>
    /\ exc = "none"
    /\ approvers = [w \in Workers |-> IdleApprover]
    /\ write_lock = "none"
    /\ session = {}
    /\ activity_research = <<>>

RegistrationManual ==
    \E raw \in RawRegistrationEmails :
        Respond([NoRequest EXCEPT !.op = "registration_manual",
                                  !.email = raw.email, !.raw_ok = raw.ok],
                registration_manual(Db, raw))

RegistrationsManage ==
    \E form \in RegistrationForms :
    \E password \in IF form.action = "approve" THEN Passwords ELSE {""} :
        /\ form.action = "approve" => Len(users) < MaxUsers
        /\ Respond([NoRequest EXCEPT !.op = "registrations_manage",
                                     !.email = form.key, !.action = form.action,
                                     !.password = password],
                   registrations_manage(Db, form.key, form.action, password, "none"))

\* The approve request with the store failing at one of its statements.
RegistrationsManageStoreFault ==
    \E email \in Emails, password \in Passwords, fault \in StoreFaults :
        /\ Len(users) < MaxUsers
        /\ Respond([NoRequest EXCEPT !.op = "registrations_manage",
                                     !.email = email, !.action = "approve",
                                     !.password = password, !.fault = fault],
                   registrations_manage(Db, email, "approve", password, fault))

UsersManage ==
    \E form \in UserForms :
    \E relay \in RelaysFor(form.action) :
        Respond([NoRequest EXCEPT !.op = "users_manage", !.email = form.key,
                                  !.action = form.action, !.relay = relay],
                users_manage(Db, config, "POST", "", form.key, form.action, relay))

UsersManagePreview ==
    \E show_email \in ShowEmailForms :
        Respond([NoRequest EXCEPT !.op = "users_manage", !.method = "GET",
                                  !.show_email = show_email],
                users_manage(Db, config, "GET", show_email, "", "", "ok"))

BookingManual ==
    \E raw \in RawBookingEmails :
        /\ Len(bookings) < MaxBookings
        /\ Respond([NoRequest EXCEPT !.op = "booking_manual", !.raw_ok = raw.ok,
                                     !.email = IF raw.ok THEN raw.parsed.email ELSE ""],
                   booking_manual(Db, raw))

BookingsManage ==
    \E form \in BookingForms :
    \E relay \in RelaysFor(form.action) :
        Respond([NoRequest EXCEPT !.op = "bookings_manage",
                                  !.booking_id = form.key,
                                  !.action = form.action, !.relay = relay],
                bookings_manage(Db, config, form.key, form.action, relay))

Next ==
    \/ RegistrationManual
    \/ RegistrationsManage
    \/ UsersManage
    \/ UsersManagePreview
    \/ BookingManual
    \/ BookingsManage

Spec == Init /\ [][Next]_vars

\* The registration and user pages alone: no booking is ever submitted.
NextRegistrations ==
    \/ RegistrationManual
    \/ RegistrationsManage
    \/ UsersManage
    \/ UsersManagePreview

SpecRegistrations == Init /\ [][NextRegistrations]_vars

\* The booking pages alone.
NextBookings ==
    \/ BookingManual
    \/ BookingsManage

SpecBookings == Init /\ [][NextBookings]_vars

\* The whole application started with no SMTP relay host in its environment.
InitNoRelay == Init /\ config.host = ""

SpecNoRelay == InitNoRelay /\ [][Next]_vars

\* The registration and user pages over a store that may fail at a statement.
NextStoreFault == NextRegistrations \/ RegistrationsManageStoreFault

SpecStoreFault == Init /\ [][NextStoreFault]_vars

\* A booking request arriving while another booking is already listed.
BookingManualReview ==
    \E raw \in RawBookingEmails :
        /\ Len(bookings) < MaxReviewBookings
        /\ Respond([NoRequest EXCEPT !.op = "booking_manual", !.raw_ok = raw.ok,
                                     !.email = IF raw.ok THEN raw.parsed.email ELSE ""],
                   booking_manual(Db, raw))

\* The two review pages, registrations and bookings, used together.
NextReview ==
    \/ RegistrationManual
    \/ RegistrationsManage
    \/ BookingManualReview
    \/ BookingsManage

\* Started with a relay host and login configured, over the schema of spec
\* section 3 (users.email unique).
InitReview == Init /\ config.host # "" /\ config.user # "" /\ users_email_unique

SpecReview == InitReview /\ [][NextReview]_vars

----------------------------------------------------------------------------
(* _approve_registration statement by statement, for requests handled side
   by side.  Each request has its own connection; the SELECT reads the
   committed rows; the INSERT takes the store's write lock, which a second
   writer waits for, and the lock is held until the scope commits or rolls
   back. *)

\* SELECT * FROM registrations WHERE email = ? ; generate_password()
ApproveLookup(w) ==
    /\ approvers[w].pc = "idle"
    /\ \E e \in Emails, password \in Passwords :
        approvers' = [approvers EXCEPT ![w] =
            IF HasRow(registrations, e)
            THEN [pc |-> "looked_up", email |-> e, password |-> password,
                  row |-> FetchOne(registrations, e)]
            ELSE [IdleApprover EXCEPT !.pc = "not_found", !.email = e]]
    /\ UNCHANGED <<registrations, users, bookings, config, users_email_unique,
                   req, prev, flashes, sends, exc, write_lock, session,
                   activity_research>>

ApproverInsert(w) ==
    insert_user(users, users_email_unique,
        [email |-> approvers[w].row.email, password |-> approvers[w].password,
         first_name |-> approvers[w].row.first_name,
         last_name |-> approvers[w].row.last_name,
         affiliation |-> approvers[w].row.affiliation,
         project |-> approvers[w].row.project,
         phone |-> approvers[w].row.phone])

\* db.insert_user(...): raises, or leaves the row uncommitted under the lock
ApproveInsert(w) ==
    /\ approvers[w].pc = "looked_up"
    /\ write_lock = "none"
    /\ IF ApproverInsert(w).raised # "none"
       THEN /\ approvers' = [approvers EXCEPT ![w].pc = "raised"]
            /\ UNCHANGED write_lock
       ELSE /\ approvers' = [approvers EXCEPT ![w].pc = "inserted"]
            /\ write_lock' = w
    /\ UNCHANGED <<registrations, users, bookings, config, users_email_unique,
                   req, prev, flashes, sends, exc, session, activity_research>>

\* db.update_registration_status(...) and the commit at the end of the scope
ApproveCommit(w) ==
    /\ approvers[w].pc = "inserted"
    /\ write_lock = w
    /\ users' = ApproverInsert(w).users
    /\ registrations' =
            update_registration_status(registrations, approvers[w].email, "registriert")
    /\ approvers' = [approvers EXCEPT ![w].pc = "approved"]
    /\ write_lock' = "none"
    /\ UNCHANGED <<bookings, config, users_email_unique, req, prev, flashes,
                   sends, exc, session, activity_research>>

NextApproveRace ==
    \/ RegistrationManual
    \/ \E w \in Workers : ApproveLookup(w)
    \/ \E w \in Workers : ApproveInsert(w)
    \/ \E w \in Workers : ApproveCommit(w)

SpecApproveRace == Init /\ [][NextApproveRace]_vars

----------------------------------------------------------------------------
(* Check-in application: check_in_rcs_app.py.  The session is the signed
   cookie of one browser, a set of <<key, value>> pairs.  A row of
   activity_research is modelled without created_at, the wall-clock time of
   the insert, which no handler reads. *)

SessionHas(sess, key) == \E pair \in sess : pair[1] = key

SessionGet(sess, key, default) ==
    IF SessionHas(sess, key)
    THEN (CHOOSE pair \in sess : pair[1] = key)[2]
    ELSE default

SessionSet(sess, key, value) ==
    {pair \in sess : pair[1] # key} \cup {<<key, value>>}

\* What a check-in handler leaves behind: session, log, flashes, redirect.
Page(sess, activity, fl, redirect) ==
    [session |-> sess, activity |-> activity, flashes |-> fl, redirect |-> redirect]

LoginEmails == {" Ann@Site.org ", "bob@site.org", ""}
LoginPasswords == {" pw-1 ", "pw-2"}
PresenceForms == {"check-in", "check-out", "pause"}
ProjectForms == {"", "P-crane"}

\* str.strip() on the submitted passwords.
Strip(text) == IF text = " pw-1 " THEN "pw-1" ELSE text

\* ORDER BY project over the project names in use.
ProjectOrder == <<"P-crane", "P-other">>

InList(item, list) == \E i \in DOMAIN list : list[i] = item

_fetch_user(table, email) ==
    IF email = "" \/ ~HasRow(table, email)
    THEN [found |-> FALSE, password |-> "", project |-> "",
          first_name |-> "", last_name |-> ""]
    ELSE [found |-> TRUE, password |-> FetchOne(table, email).password,
          project |-> FetchOne(table, email).project,
          first_name |-> FetchOne(table, email).first_name,
          last_name |-> FetchOne(table, email).last_name]

_fetch_booking_projects(table, email) ==
    IF email = "" THEN <<>>
    ELSE SelectSeq(ProjectOrder,
            LAMBDA project : \E i \in Rows(table, email) : table[i].project = project)

_insert_activity(activity, email, first_name, last_name, project, presence) ==
    Append(activity,
        [email |-> email, first_name |-> first_name, last_name |-> last_name,
         project |-> project, presence |-> presence])

\* login comparing nothing: every stored email is let in.
login_any_password(db, sess, activity, method, form_email, form_password) ==
    LET email == StripLower(form_email)
        user == _fetch_user(db.users, email)
    IN  IF method = "POST" /\ user.found
        THEN Page(SessionSet(SessionSet(SessionSet(SessionSet(sess,
                      "user_email", email),
                      "user_project", user.project),
                      "user_first_name", user.first_name),
                      "user_last_name", user.last_name),
                  activity, <<>>, "checkin")
        ELSE Page(sess, activity, <<>>, "")

login(db, sess, activity, method, form_email, form_password) ==
    LET email == StripLower(form_email)
        password == Strip(form_password)
        user == _fetch_user(db.users, email)
    IN  IF method # "POST"
        THEN Page(sess, activity, <<>>, "")
        ELSE IF ~user.found \/ password # user.password
        THEN Page(sess, activity,
                  <<Flash("error", "Falsche Login-Daten. Bitte erneut versuchen.")>>, "")
        ELSE Page(SessionSet(SessionSet(SessionSet(SessionSet(sess,
                      "user_email", email),
                      "user_project", user.project),
                      "user_first_name", user.first_name),
                      "user_last_name", user.last_name),
                  activity, <<>>, "checkin")

\* The project shown as selected before the form is read (lines 123-129).
SelectedProject(db, sess) ==
    LET booked == _fetch_booking_projects(db.bookings, SessionGet(sess, "user_email", ""))
        fallback_project == SessionGet(sess, "user_project", "")
        projects == IF booked = <<>> /\ fallback_project # ""
                    THEN <<fallback_project>> ELSE booked
        selected_project == SessionGet(sess, "selected_project", "None")
    IN  [projects |-> projects,
         selected_project |->
            IF InList(selected_project, projects) THEN selected_project
            ELSE IF projects # <<>> THEN projects[1] ELSE ""]

\* checkin storing whatever presence the form carries.
checkin_any_presence(db, sess, activity, method, presence, submitted_project) ==
    IF ~SessionHas(sess, "user_email")
    THEN Page(sess, activity, <<>>, "login")
    ELSE
    LET projects == SelectedProject(db, sess).projects
        selected_project ==
            IF InList(submitted_project, projects) THEN submitted_project
            ELSE IF submitted_project # "" /\ projects = <<>> THEN submitted_project
            ELSE SelectedProject(db, sess).selected_project
    IN  IF method # "POST"
        THEN Page(sess, activity, <<>>, "")
        ELSE IF selected_project = ""
        THEN Page(sess, activity, <<Flash("error", "Bitte ein Projekt auswaehlen.")>>, "")
        ELSE Page(SessionSet(sess, "selected_project", selected_project),
                  _insert_activity(activity, SessionGet(sess, "user_email", ""),
                                   SessionGet(sess, "user_first_name", ""),
                                   SessionGet(sess, "user_last_name", ""),
                                   selected_project, presence),
                  <<Flash("success", "Eintrag gespeichert.")>>, "")

checkin(db, sess, activity, method, presence, submitted_project) ==
    IF ~SessionHas(sess, "user_email")
    THEN Page(sess, activity, <<>>, "login")
    ELSE
    LET projects == SelectedProject(db, sess).projects
        selected_project ==
            IF InList(submitted_project, projects) THEN submitted_project
            ELSE IF submitted_project # "" /\ projects = <<>> THEN submitted_project
            ELSE SelectedProject(db, sess).selected_project
    IN  IF method # "POST"
        THEN Page(sess, activity, <<>>, "")
        ELSE IF selected_project = ""
        THEN Page(sess, activity, <<Flash("error", "Bitte ein Projekt auswaehlen.")>>, "")
        ELSE IF presence \in {"check-in", "check-out"}
        THEN Page(SessionSet(sess, "selected_project", selected_project),
                  _insert_activity(activity, SessionGet(sess, "user_email", ""),
                                   SessionGet(sess, "user_first_name", ""),
                                   SessionGet(sess, "user_last_name", ""),
                                   selected_project, presence),
                  <<Flash("success", "Eintrag gespeichert.")>>, "")
        ELSE Page(sess, activity,
                  <<Flash("error", "Bitte eine gueltige Auswahl treffen.")>>, "")

logout(sess, activity) == Page({}, activity, <<>>, "index")

\* One request to the check-in application and its response.
RespondCheckIn(request, page) ==
    /\ session' = page.session
    /\ activity_research' = page.activity
    /\ flashes' = page.flashes
    /\ sends' = <<>>
    /\ exc' = "none"
    /\ req' = request
    /\ prev' = Db
    /\ UNCHANGED <<registrations, users, bookings, config, users_email_unique,
                   approvers, write_lock>>

Login ==
    \E form_email \in LoginEmails, form_password \in LoginPasswords :
        RespondCheckIn([NoRequest EXCEPT !.op = "login", !.email = form_email,
                                         !.password = form_password],
                       login(Db, session, activity_research, "POST", form_email, form_password))

Checkin ==
    \E presence \in PresenceForms, project \in ProjectForms :
        /\ Len(activity_research) < MaxActivities
        /\ RespondCheckIn([NoRequest EXCEPT !.op = "checkin", !.presence = presence,
                                            !.project = project],
                          checkin(Db, session, activity_research, "POST", presence, project))

\* GET /login and GET /checkin: the pages are shown, nothing is read from a form.
CheckinPages ==
    \/ RespondCheckIn([NoRequest EXCEPT !.op = "login", !.method = "GET"],
                      login(Db, session, activity_research, "GET", "", ""))
    \/ RespondCheckIn([NoRequest EXCEPT !.op = "checkin", !.method = "GET"],
                      checkin(Db, session, activity_research, "GET", "", ""))

Logout ==
    RespondCheckIn([NoRequest EXCEPT !.op = "logout", !.method = "GET"],
                   logout(session, activity_research))

\* The tables once the coordinator has stored and approved the registration
\* of every email, each User with a password of its own.
SeedPasswords == [e \in Emails |-> IF e = "ann@site.org" THEN "pw-1" ELSE "pw-2"]

RECURSIVE Approved(_, _)
Approved(db, emails) ==
    IF emails = {} THEN db
    ELSE LET e == CHOOSE x \in emails : \A y \in emails : (x = "ann@site.org") \/ (y # "ann@site.org")
             stored == registration_manual(db,
                          [ok |-> TRUE, email |-> e, profile |-> ProfileOf(e)]).db
         IN  Approved(registrations_manage(stored, e, "approve", SeedPasswords[e], "none").db,
                      emails \ {e})

\* Both applications over one database.  The check-in application is
\* started over the tables in which the registrations are approved, without
\* a relay host and over the schema of spec section 3 (users.email unique).
InitCheckIn ==
    /\ config \in {cfg \in SmtpConfigs : cfg.host = ""}
    /\ users_email_unique = TRUE
    /\ registrations = Approved(Tables(<<>>, <<>>, <<>>), Emails).registrations
    /\ users = Approved(Tables(<<>>, <<>>, <<>>), Emails).users
    /\ bookings = <<>>
    /\ req = NoRequest
    /\ prev = Approved(Tables(<<>>, <<>>, <<>>), Emails)
    /\ flashes = <<>>
    /\ sends = <<>>
    /\ exc = "none"
    /\ approvers = [w \in Workers |-> IdleApprover]
    /\ write_lock = "none"
    /\ session = {}
    /\ activity_research = <<>>

NextCheckIn ==
    \/ RegistrationsManage
    \/ BookingManual
    \/ Login
    \/ Checkin
    \/ CheckinPages
    \/ Logout

SpecCheckIn == InitCheckIn /\ [][NextCheckIn]_vars

----------------------------------------------------------------------------
(* Properties.  Each speaks of the request handled last (req), the tables
   before it (prev) and the tables and response after it. *)

ApproveRegistrationOf(e) ==
    /\ req.op = "registrations_manage"
    /\ req.action = "approve"
    /\ req.email = e

DenyRegistrationOf(e) ==
    /\ req.op = "registrations_manage"
    /\ req.action = "deny"
    /\ req.email = e

SendCredentialsOf(e) ==
    /\ req.op = "users_manage"
    /\ req.method = "POST"
    /\ req.action = "send"
    /\ req.email = e

BookingRequestOf(action, id) ==
    /\ req.op = "bookings_manage"
    /\ req.action = action
    /\ int(req.booking_id).raised = "none"
    /\ int(req.booking_id).value = id

BookingIds == 1..(MaxBookings + 1)

HasFlash(category) == \E i \in DOMAIN flashes : flashes[i].category = category

HasMessage(message) == \E i \in DOMAIN flashes : flashes[i].message = message

TablesUnchanged == Db = prev

PendingWithoutUser(e) ==
    /\ HasRow(prev.registrations, e)
    /\ FetchOne(prev.registrations, e).status = "pending"
    /\ ~HasRow(prev.users, e)

\* C1: approve of a pending Registration whose email has no User sets the
\* status to "registriert" and creates exactly one User row for that email,
\* with the password generated in this request and the registration's name,
\* affiliation, project and phone.
C1_ApproveCreatesUser ==
    \A e \in Emails :
        (ApproveRegistrationOf(e) /\ req.fault = "none" /\ PendingWithoutUser(e)) =>
            LET r == FetchOne(prev.registrations, e)
            IN  /\ \A i \in Rows(registrations, e) : registrations[i].status = "registriert"
                /\ Len(registrations) = Len(prev.registrations)
                /\ Cardinality(Rows(users, e)) = 1
                /\ users = Append(prev.users,
                        [email |-> e, password |-> req.password,
                         first_name |-> r.first_name, last_name |-> r.last_name,
                         affiliation |-> r.affiliation, project |-> r.project,
                         phone |-> r.phone, credentials_sent |-> 0])

C1_Witness ==
    \E e \in Emails :
        /\ ApproveRegistrationOf(e)
        /\ PendingWithoutUser(e)
        /\ prev.users # <<>>
        /\ exc = "none"
        /\ HasFlash("success")

\* C2: approve of a Registration whose email already has a User changes no
\* table (the Registration keeps its status, no second User) and tells the
\* operator in a message instead of failing unhandled.
C2_ApproveExistingUserRejected ==
    \A e \in Emails :
        (ApproveRegistrationOf(e) /\ req.fault = "none"
            /\ HasRow(prev.registrations, e) /\ HasRow(prev.users, e)) =>
            /\ TablesUnchanged
            /\ exc = "none"
            /\ HasFlash("error")

\* C3: a Registration that is "registriert" or "denied" keeps that status
\* over every later request.
C3_RegistrationStatusTerminal ==
    \A i \in DOMAIN prev.registrations :
        prev.registrations[i].status # "pending" =>
            registrations[i].status = prev.registrations[i].status

\* C4: a Booking that is "gebucht" or "denied" keeps that status over every
\* later request.
C4_BookingStatusTerminal ==
    \A i \in DOMAIN prev.bookings :
        prev.bookings[i].status # "pending" =>
            bookings[i].status = prev.bookings[i].status

\* C5: credential-send for an existing User with an SMTP host configured
\* and a relay that accepts the message raises credentials_sent by one; a
\* transport failure leaves it as it was.
C5_SuccessfulSendIncrements ==
    \A e \in Emails :
        (SendCredentialsOf(e) /\ HasRow(prev.users, e) /\ config.host # "") =>
            \A i \in Rows(prev.users, e) :
                users[i].credentials_sent =
                    IF req.relay = "ok"
                    THEN prev.users[i].credentials_sent + 1
                    ELSE prev.users[i].credentials_sent

\* C6: when the confirmation email of a booking approve fails in transport,
\* the booking is "gebucht" all the same.
C6_StatusCommittedBeforeSend ==
    \A id \in BookingIds :
        (BookingRequestOf("approve", id) /\ sends # <<>>
            /\ sends[Len(sends)].raised # "none") =>
            /\ BookingRows(bookings, id) # {}
            /\ \A i \in BookingRows(bookings, id) : bookings[i].status = "gebucht"

C6_Witness ==
    \E id \in BookingIds :
        /\ BookingRequestOf("approve", id)
        /\ \E i \in BookingRows(prev.bookings, id) : prev.bookings[i].status = "pending"
        /\ Len(sends) = 1
        /\ sends[1].raised = "SMTPException"
        /\ exc = "SMTPException"

\* C7: with no SMTP host configured no request calls send_email; booking
\* approve reports the missing configuration and still sets "gebucht";
\* credential-send reports it and leaves credentials_sent unchanged.
C7_NoHostNoSend ==
    config.host = "" =>
        /\ sends = <<>>
        /\ \A id \in BookingIds :
            (BookingRequestOf("approve", id) /\ BookingRows(prev.bookings, id) # {}) =>
                /\ HasMessage("SMTP host not configured; booking email not sent.")
                /\ \A i \in BookingRows(bookings, id) : bookings[i].status = "gebucht"
                /\ exc = "none"
        /\ \A e \in Emails :
            (SendCredentialsOf(e) /\ HasRow(prev.users, e)) =>
                /\ HasMessage("SMTP host not configured; credentials email not sent.")
                /\ users = prev.users
                /\ exc = "none"

C7_Witness ==
    /\ config.host = ""
    /\ \E e \in Emails : SendCredentialsOf(e) /\ HasRow(prev.users, e)
    /\ \E i \in DOMAIN bookings : bookings[i].status = "gebucht"
    /\ HasFlash("error")

\* C8: approve or deny of a registration or booking, or credential-send,
\* whose key is not in the store reports an error and no success, changes
\* no table and sends nothing.
C8_NotFoundReported ==
    LET absent ==
            \/ \E e \in Emails :
                /\ ApproveRegistrationOf(e) \/ DenyRegistrationOf(e)
                /\ ~HasRow(prev.registrations, e)
            \/ \E e \in Emails : SendCredentialsOf(e) /\ ~HasRow(prev.users, e)
            \/ \E id \in BookingIds :
                /\ BookingRequestOf("approve", id) \/ BookingRequestOf("deny", id)
                /\ BookingRows(prev.bookings, id) = {}
    IN  absent =>
            /\ HasFlash("error")
            /\ ~HasFlash("success")
            /\ TablesUnchanged
            /\ sends = <<>>

\* C9: a transport failure of send_email ends the request with a message
\* to the operator; no exception leaves the handler.
C9_TransportFailureReported ==
    (sends # <<>> /\ sends[Len(sends)].raised # "none") =>
        /\ exc = "none"
        /\ HasFlash("error")

C12_ApproveSendsOneConfirmation ==
    \A id \in BookingIds :
        (BookingRequestOf("approve", id) /\ BookingRows(prev.bookings, id) # {}
            /\ config.host # "") =>
            LET row == prev.bookings[Min(BookingRows(prev.bookings, id))]
            IN  /\ Len(sends) = 1
                /\ sends[1].message.to = row.email
                /\ sends[1].message.project = row.project
                /\ sends[1].message.timeslot = row.timeslot_raw
                /\ sends[1].message.duration = row.duration_weeks

C12_Witness ==
    \E id \in BookingIds :
        /\ BookingRequestOf("approve", id)
        /\ BookingRows(prev.bookings, id) # {}
        /\ config.host # ""
        /\ Len(sends) = 1
        /\ sends[1].raised = "none"
        /\ sends[1].message.timeslot = "2025-W10; Mon-Fri"

\* The steps of an exchange that runs to its end under configuration cfg.
FullExchange(cfg) ==
    <<"connect", "starttls">>
        \o (IF cfg.user # "" THEN <<"login">> ELSE <<>>)
        \o <<"send_message", "close">>

IsPrefix(s, t) == Len(s) <= Len(t) /\ \A i \in DOMAIN s : s[i] = t[i]

\* C13: every send_email call opens the connection, then STARTTLS, then
\* login exactly when a user is configured, then send_message, then close;
\* send_message never comes before STARTTLS, and a connection that was
\* opened is closed however the call ends.
C13_TransportOrder ==
    \A i \in DOMAIN sends :
        LET steps == sends[i].steps
            open == SelectSeq(steps, LAMBDA step : step # "close")
        IN  /\ open # <<>>
            /\ IsPrefix(open, FullExchange(config))
            /\ sends[i].raised = "none" => steps = FullExchange(config)
            /\ IF Len(steps) = 1
               THEN sends[i].raised = "OSError"
               ELSE /\ steps[Len(steps)] = "close"
                    /\ Len(open) = Len(steps) - 1

\* An exchange with login that fails after STARTTLS, at the transmission.
C13_Witness ==
    \E i \in DOMAIN sends :
        /\ config.user # ""
        /\ sends[i].raised = "SMTPException"
        /\ sends[i].steps = <<"connect", "starttls", "login", "send_message", "close">>

\* C14: a deny, of a registration or of a booking, sets the status of the
\* rows it addresses to "denied" and changes nothing else: no other field,
\* no other registration or booking, no User, and no send_email call.
C14_DenyUpdatesStatusOnly ==
    /\ \A e \in Emails :
        DenyRegistrationOf(e) =>
            /\ users = prev.users
            /\ bookings = prev.bookings
            /\ sends = <<>>
            /\ DOMAIN registrations = DOMAIN prev.registrations
            /\ \A i \in DOMAIN registrations :
                registrations[i] =
                    IF prev.registrations[i].email = e
                    THEN [prev.registrations[i] EXCEPT !.status = "denied"]
                    ELSE prev.registrations[i]
    /\ \A id \in BookingIds :
        BookingRequestOf("deny", id) =>
            /\ users = prev.users
            /\ registrations = prev.registrations
            /\ sends = <<>>
            /\ DOMAIN bookings = DOMAIN prev.bookings
            /\ \A i \in DOMAIN bookings :
                bookings[i] =
                    IF prev.bookings[i].id = id
                    THEN [prev.bookings[i] EXCEPT !.status = "denied"]
                    ELSE prev.bookings[i]

\* A booking is denied while a User, a registration and a second, approved
\* booking are stored and an SMTP host is configured.
C14_Witness ==
    \E id \in BookingIds :
        /\ BookingRequestOf("deny", id)
        /\ config.host # ""
        /\ users # <<>>
        /\ registrations # <<>>
        /\ \E i, j \in DOMAIN bookings :
            /\ prev.bookings[i].id = id
            /\ prev.bookings[i].status = "pending"
            /\ bookings[i].status = "denied"
            /\ bookings[j].id # id
            /\ bookings[j].status = "gebucht"

\* The request's send_email call was made and ended without an exception.
SendSucceeded == sends # <<>> /\ sends[Len(sends)].raised = "none"

C16_ActivityLogAppendOnly ==
    [][ /\ IsPrefix(activity_research, activity_research')
        /\ \A i \in DOMAIN activity_research' :
            activity_research'[i].presence \in {"check-in", "check-out"}
      ]_vars

\* A second row is logged after a first one, with a request of the
\* coordination application answered while the log was not empty.
C16_Witness ==
    /\ Len(activity_research) = 2
    /\ activity_research[1].presence = "check-in"
    /\ activity_research[2].presence = "check-out"
    /\ req.op = "registrations_manage"

LoggedIn(sess) == SessionHas(sess, "user_email")

\* The password of the login form, trimmed, is the stored password of a
\* User whose email is the email of the form, trimmed and lowercased.
LoginMatches(request) ==
    \E i \in DOMAIN users :
        /\ users[i].email = StripLower(request.email)
        /\ users[i].password = Strip(request.password)

====
